---- MODULE Spec2Model ----
(***************************************************************************)
(* Model of the bulk-message dispatchers of DisparaPrompta.                *)
(*                                                                         *)
(* The repository holds four servers.  Two are "queue" servers             *)
(* (src/unnamed/part_000 and src/unnamed/part_002): an array messageQueue  *)
(* drained by processMessageQueue, re-armed through setTimeout, started by *)
(* /api/start-now or by a node-cron job, stopped by /api/stop.  Two are    *)
(* "loop" servers (src/server.js and src/unnamed/part_001): a for-loop     *)
(* startSendingProcess over sendingData.contacts, guarded by isSending.    *)
(*                                                                         *)
(* One behaviour of the model is one run of one server: Init picks which.  *)
(* Node runs every handler, timer callback and promise continuation to its *)
(* next await without interleaving, so each action below is one such       *)
(* run-to-completion segment.                                              *)
(***************************************************************************)
EXTENDS Integers, Sequences, FiniteSets, TLC

(* Bounds of the model. *)
MaxBatch == 3
MaxUploads == 2
MaxPending == 2

QueueServers == {"part_000", "part_002"}
LoopServers == {"server.js", "part_001"}

(* The request inputs the model enumerates. *)
Delays == {0, 5}
StartTimes == {"08:00", "09:00"}
Malformed == "8h"
NullTime == "null"

(* A message is the sequence of its parts: placeholder tokens and pieces   *)
(* of plain text (text without braces).  The empty message is what JS      *)
(* takes for absent: '' and null are both falsy.                           *)
Template == <<"Hi ", "{name}", "!">>
RowMessage == <<"{name}", ", hello ", "{name}">>
NoMessage == <<>>

VARIABLES
    server,         \* which server file is running
    client,         \* the transport object exists (client / sock is not null)
    isConnected,
    messageQueue,   \* queue servers: the pending jobs
    currentConfig,  \* queue servers: [delay, startTime, isRunning]
    cronJobs,       \* queue servers: the node-cron jobs armed so far (never destroyed)
    delayTimers,    \* queue servers: pending setTimeout(processMessageQueue, delay)
    inFlight,       \* queue servers: jobs whose sendMessage has not returned yet
    batch,          \* history: the jobs of the last accepted upload
    handed,         \* history: jobs handed to sendMessage since the last accepted upload
    hist,           \* history: since the last accepted upload, was the batch started, was stop
                    \* called, did a send of one of its jobs fail, and how many times
                    \* part_002 emitted 'queue-finished'
    isSending,      \* loop servers
    sendingData,    \* loop servers: [current, total, contacts]
    loops,          \* loop servers: the startSendingProcess calls that have not returned
    startTimers,    \* loop servers: pending setTimeout(() => startSendingProcess(..), waitTime)
    logs,           \* loop servers: sendingData.logs
    added,          \* history: every entry pushed by addLog since logs was last emptied
    last            \* history: the step just taken and the HTTP status it answered

schedVars == <<messageQueue, currentConfig, cronJobs, delayTimers, inFlight>>

queueVars == <<schedVars, batch, handed, hist>>

loopVars == <<isSending, sendingData, loops, startTimers>>

logVars == <<logs, added>>

vars == <<server, client, isConnected, queueVars, loopVars, logVars, last>>

(***************************************************************************)
(* Queue servers                                                           *)
(***************************************************************************)

(* processCSV: one contact per CSV row that has a number.  Row i of upload *)
(* b carries the number 10*b+i; even rows carry a message of their own.    *)
Contact(b, i) ==
    [nome |-> "Ana", numero |-> 10 * b + i,
     mensagem |-> IF i % 2 = 0 THEN RowMessage ELSE NoMessage]

ProcessCSV(b, n) == [i \in 1..n |-> Contact(b, i)]

(* text.replace(token, nome) with a string pattern: the first occurrence. *)
ReplaceFirst(text, token, nome) ==
    [k \in DOMAIN text |->
        IF text[k] = token /\ \A j \in 1..(k - 1) : text[j] # token THEN nome ELSE text[k]]

(* text.replace(/token/g, nome): every occurrence. *)
ReplaceAll(text, token, nome) ==
    [k \in DOMAIN text |-> IF text[k] = token THEN nome ELSE text[k]]

(* finalMessage of sendMessage: part_000 replaces with string patterns,   *)
(* part_002 with global regular expressions.                              *)
FinalMessage(mensagem, nome) ==
    IF server = "part_000"
    THEN ReplaceFirst(ReplaceFirst(mensagem, "{nome}", nome), "{name}", nome)
    ELSE ReplaceAll(ReplaceAll(mensagem, "{nome}", nome), "{name}", nome)

(* contact.mensagem || message *)
JobOf(contact, message) ==
    [nome |-> contact.nome, numero |-> contact.numero,
     mensagem |-> IF contact.mensagem # NoMessage THEN contact.mensagem ELSE message]

(* What a step did: the operation, the HTTP status answered (0: none), whether   *)
(* the timer or cron job that fired had seen a stop, whether a job was handed  *)
(* to sendMessage, the result the code recorded for the send that ended in the *)
(* step ("none": no send ended), whether a send failed in the step, and the    *)
(* waitTime computed by /api/start-sending (0: none), and the text given to the *)
(* transport's send with the contact it was for (empty, 0: the transport was   *)
(* not called).  Every path but the simulation fallback of server.js records a *)
(* failed send as a failure.                                                   *)
Event(op, code, stale, sent, result) ==
    [op |-> op, code |-> code, stale |-> stale, sent |-> sent, result |-> result,
     failed |-> result = "failure", wait |-> 0, to |-> 0, text |-> <<>>]

(* The part of the state processMessageQueue reads and writes. *)
Sched ==
    [q |-> messageQueue, run |-> currentConfig.isRunning, tm |-> delayTimers,
     fl |-> inFlight, hd |-> handed, h |-> hist, sent |-> FALSE, result |-> "none",
     to |-> 0, text |-> <<>>]

(* The record of a step that ran processMessageQueue. *)
SchedEvent(op, code, stale, s) ==
    [Event(op, code, stale, s.sent, s.result) EXCEPT !.to = s.to, !.text = s.text]

Pending == Cardinality(inFlight) + delayTimers[TRUE] + delayTimers[FALSE]

(* AfterSend with a failed send treated as fatal: the loop gives up. *)
AfterSend_FailureAborts(s, job, ok) ==
    LET s1 == [s EXCEPT !.result = IF ok THEN "success" ELSE "failure",
                        !.h.failed = @ \/ (~ok /\ \E i \in DOMAIN batch : batch[i] = job)]
    IN  IF Len(s1.q) > 0 /\ ok
        THEN [s1 EXCEPT !.tm[FALSE] = @ + 1]
        ELSE [s1 EXCEPT !.run = FALSE]

(* processMessageQueue after `await sendMessage(...)`: re-arm or finish;  *)
(* part_002 then emits 'queue-finished'.                                  *)
AfterSend(s, job, ok) ==
    LET s1 == [s EXCEPT !.result = IF ok THEN "success" ELSE "failure",
                        !.h.failed = @ \/ (~ok /\ \E i \in DOMAIN batch : batch[i] = job)]
    IN  IF Len(s1.q) > 0
        THEN [s1 EXCEPT !.tm[FALSE] = @ + 1]
        ELSE [s1 EXCEPT !.run = FALSE,
                        !.h.finished = IF server = "part_002" THEN @ + 1 ELSE @]

(* sendMessage throws before any await when there is no connected client. *)
CanSend == client /\ isConnected

(* processMessageQueue without the test of isRunning. *)
ProcessMessageQueue_NoRunCheck(s) ==
    IF Len(s.q) = 0
    THEN s
    ELSE LET job == Head(s.q)
             s1 == [s EXCEPT !.q = Tail(@), !.hd = Append(@, job), !.sent = TRUE]
         IN  IF CanSend
             THEN [s1 EXCEPT !.fl = @ \cup {job}, !.to = job.numero,
                             !.text = FinalMessage(job.mensagem, job.nome)]
             ELSE AfterSend(s1, job, FALSE)

(* processMessageQueue with pop() in place of shift(). *)
ProcessMessageQueue_Pop(s) ==
    IF Len(s.q) = 0 \/ ~s.run
    THEN s
    ELSE LET job == s.q[Len(s.q)]
             s1 == [s EXCEPT !.q = SubSeq(@, 1, Len(@) - 1), !.hd = Append(@, job),
                             !.sent = TRUE]
         IN  IF CanSend
             THEN [s1 EXCEPT !.fl = @ \cup {job}, !.to = job.numero,
                             !.text = FinalMessage(job.mensagem, job.nome)]
             ELSE AfterSend(s1, job, FALSE)

(* processMessageQueue up to its await. *)
ProcessMessageQueue(s) ==
    IF Len(s.q) = 0 \/ ~s.run
    THEN s
    ELSE LET job == Head(s.q)
             s1 == [s EXCEPT !.q = Tail(@), !.hd = Append(@, job), !.sent = TRUE]
         IN  IF CanSend
             THEN [s1 EXCEPT !.fl = @ \cup {job}, !.to = job.numero,
                             !.text = FinalMessage(job.mensagem, job.nome)]
             ELSE AfterSend(s1, job, FALSE)

(* A call of processMessageQueue on s starts one more chain of sends. *)
StartsChain(s) == ProcessMessageQueue(s).sent

Commit(s) ==
    /\ messageQueue' = s.q
    /\ currentConfig' = [currentConfig EXCEPT !.isRunning = s.run]
    /\ delayTimers' = s.tm
    /\ inFlight' = s.fl
    /\ handed' = s.hd
    /\ hist' = s.h

SchedUnchanged == UNCHANGED queueVars

EnvUnchanged == UNCHANGED <<server, client, isConnected, loopVars, logVars>>

Uncancel(jobs) == [k \in 1..Len(jobs) |-> [jobs[k] EXCEPT !.cancelled = FALSE]]

Cancel(jobs) == [k \in 1..Len(jobs) |-> [jobs[k] EXCEPT !.cancelled = TRUE]]

(* cron.schedule validates its expression `${minute} ${hour} * * *` and  *)
(* throws on one that is not a time of day.                               *)
ValidCron(startTime) == startTime \in StartTimes

(* scheduleDispatch: the configuration and the queue are written first,   *)
(* then the cron job is armed; when cron.schedule throws, the writes stay. *)
ScheduleDispatch(contacts, message, delay, startTime) ==
    /\ currentConfig' = [currentConfig EXCEPT !.delay = delay, !.startTime = startTime]
    /\ messageQueue' = [i \in 1..Len(contacts) |-> JobOf(contacts[i], message)]
    /\ cronJobs' = IF ValidCron(startTime)
                   THEN Append(Uncancel(cronJobs), [startTime |-> startTime, cancelled |-> FALSE])
                   ELSE cronJobs
    /\ batch' = messageQueue'
    /\ handed' = <<>>
    /\ hist' = [started |-> FALSE, stopped |-> FALSE, failed |-> FALSE, finished |-> 0]
    /\ UNCHANGED <<delayTimers, inFlight>>

(* The multipart requests to /api/upload: the file may be missing, a field may *)
(* be missing, the CSV yields n contacts.  A request that is rejected is listed *)
(* once, not once per value of the fields that are never read; of the requests *)
(* with a malformed start time the model lists one, with a CSV of one contact.  *)
UploadRequests ==
    {r \in [hasFile : BOOLEAN, fieldsOk : BOOLEAN, n : 0..MaxBatch,
            delay : Delays, startTime : StartTimes \cup {Malformed}] :
        /\ ~r.hasFile => r.fieldsOk
        /\ (~r.hasFile \/ ~r.fieldsOk) => r.n = 0
        /\ r.n = 0 => r.delay = 0 /\ r.startTime = "08:00"
        /\ r.startTime = Malformed => r.delay = 0 /\ r.n <= 1}

(* /api/upload without the test of `contacts.length === 0`. *)
Upload_NoEmptyCheck(hasFile, fieldsOk, n, delay, startTime) ==
    /\ server \in QueueServers
    /\ EnvUnchanged
    /\ IF ~hasFile \/ ~fieldsOk
       THEN /\ last' = Event("upload", 400, FALSE, FALSE, "none")
            /\ SchedUnchanged
       ELSE /\ Len(cronJobs) < MaxUploads
            /\ ScheduleDispatch(ProcessCSV(Len(cronJobs) + 1, n), Template,
                                delay * 1000, startTime)
            /\ last' = Event("upload", IF ValidCron(startTime) THEN 200 ELSE 500,
                             FALSE, FALSE, "none")

(* POST /api/upload *)
Upload(hasFile, fieldsOk, n, delay, startTime) ==
    /\ server \in QueueServers
    /\ EnvUnchanged
    /\ IF ~hasFile \/ ~fieldsOk \/ n = 0
       THEN /\ last' = Event("upload", 400, FALSE, FALSE, "none")
            /\ SchedUnchanged
       ELSE /\ Len(cronJobs) < MaxUploads
            /\ ScheduleDispatch(ProcessCSV(Len(cronJobs) + 1, n), Template,
                                delay * 1000, startTime)
            /\ last' = Event("upload", IF ValidCron(startTime) THEN 200 ELSE 500,
                             FALSE, FALSE, "none")

(* /api/start-now without the test of an empty queue. *)
StartNow_NoEmptyCheck ==
    /\ server \in QueueServers
    /\ EnvUnchanged
    /\ IF currentConfig.isRunning
       THEN /\ last' = Event("start-now", 400, FALSE, FALSE, "none")
            /\ SchedUnchanged
       ELSE /\ Pending < MaxPending
            /\ LET s == ProcessMessageQueue([Sched EXCEPT !.run = TRUE, !.h.started = TRUE])
               IN  /\ Commit(s)
                   /\ last' = SchedEvent("start-now", 200, FALSE, s)
            /\ cronJobs' = Uncancel(cronJobs)
            /\ UNCHANGED batch

(* POST /api/start-now *)
StartNow ==
    /\ server \in QueueServers
    /\ EnvUnchanged
    /\ IF Len(messageQueue) = 0
       THEN /\ last' = Event("start-now", 400, FALSE, FALSE, "none")
            /\ SchedUnchanged
       ELSE IF currentConfig.isRunning
       THEN /\ last' = Event("start-now", 400, FALSE, FALSE, "none")
            /\ SchedUnchanged
       ELSE /\ Pending < MaxPending
            /\ LET s == ProcessMessageQueue([Sched EXCEPT !.run = TRUE, !.h.started = TRUE])
               IN  /\ Commit(s)
                   /\ last' = SchedEvent("start-now", 200, FALSE, s)
            /\ cronJobs' = Uncancel(cronJobs)
            /\ UNCHANGED batch

(* /api/stop emptying the queue on every server. *)
Stop_ClearsQueue ==
    /\ server \in QueueServers
    /\ EnvUnchanged
    /\ currentConfig' = [currentConfig EXCEPT !.isRunning = FALSE]
    /\ messageQueue' = <<>>
    /\ delayTimers' = [b \in BOOLEAN |-> IF b THEN delayTimers[TRUE] + delayTimers[FALSE] ELSE 0]
    /\ cronJobs' = Cancel(cronJobs)
    /\ last' = Event("stop", 200, FALSE, FALSE, "none")
    /\ hist' = [hist EXCEPT !.stopped = TRUE]
    /\ UNCHANGED <<inFlight, batch, handed>>

(* POST /api/stop *)
Stop ==
    /\ server \in QueueServers
    /\ EnvUnchanged
    /\ currentConfig' = [currentConfig EXCEPT !.isRunning = FALSE]
    /\ messageQueue' = IF server = "part_002" THEN <<>> ELSE messageQueue
    /\ delayTimers' = [b \in BOOLEAN |-> IF b THEN delayTimers[TRUE] + delayTimers[FALSE] ELSE 0]
    /\ cronJobs' = Cancel(cronJobs)
    /\ last' = Event("stop", 200, FALSE, FALSE, "none")
    /\ hist' = [hist EXCEPT !.stopped = TRUE]
    /\ UNCHANGED <<inFlight, batch, handed>>

(* The callback of the k-th cron job, at its time of day. *)
CronFire(k) ==
    /\ server \in QueueServers
    /\ k \in 1..Len(cronJobs)
    /\ EnvUnchanged
    /\ StartsChain([Sched EXCEPT !.run = TRUE]) => Pending < MaxPending
    /\ LET atBatchTime == cronJobs[k].startTime = currentConfig.startTime
           s == ProcessMessageQueue([Sched EXCEPT !.run = TRUE,
                                                  !.h.started = @ \/ atBatchTime])
       IN  /\ Commit(s)
           /\ last' = SchedEvent("cron", 0, cronJobs[k].cancelled, s)
    /\ UNCHANGED <<cronJobs, batch>>

(* A setTimeout(processMessageQueue, delay) comes due. *)
TimerFire(stale) ==
    /\ server \in QueueServers
    /\ delayTimers[stale] > 0
    /\ EnvUnchanged
    /\ LET s == ProcessMessageQueue([Sched EXCEPT !.tm[stale] = @ - 1])
       IN  /\ Commit(s)
           /\ last' = SchedEvent("timer", 0, stale, s)
    /\ UNCHANGED <<cronJobs, batch>>

(* client.sendText / sock.sendMessage settles: resolved (ok) or rejected. *)
SendDone(job, ok) ==
    /\ server \in QueueServers
    /\ job \in inFlight
    /\ EnvUnchanged
    /\ LET s == AfterSend([Sched EXCEPT !.fl = @ \ {job}], job, ok)
       IN  /\ Commit(s)
           /\ last' = Event("send-done", 0, FALSE, FALSE, s.result)
    /\ UNCHANGED <<cronJobs, batch>>

(***************************************************************************)
(* Loop servers                                                            *)
(***************************************************************************)

CustomMessages == {NoMessage, Template}

(* The message /api/upload-csv gives a row that has none. *)
DefaultMessage == <<"Olá!">>

(* message.replace(/\{nome\}/g, contact.nome) of startSendingProcess. *)
LoopMessage(customMessage, contact) ==
    ReplaceAll(IF customMessage # NoMessage THEN customMessage ELSE contact.mensagem,
               "{nome}", contact.nome)

(* parseInt(delay) of /api/start-sending; 5000 is its default. *)
LoopDelays == {5000}

(* A phone field is the sequence of its characters. *)
Digits == {"0", "1", "2", "3", "4", "5", "6", "7", "8", "9"}

DigitChar(d) == <<"0", "1", "2", "3", "4", "5", "6", "7", "8", "9">>[d + 1]

IsDigit(c) == c \in Digits

(* String(...).replace(/\D/g, '') *)
OnlyDigits(field) == SelectSeq(field, IsDigit)

(* telefone.startsWith('55') *)
StartsWith55(telefone) == Len(telefone) >= 2 /\ telefone[1] = "5" /\ telefone[2] = "5"

(* Row i of file b: a mobile number written without country code; even    *)
(* rows carry a message of their own.  `national` and `explicit` say what *)
(* was written: the national number and whether the country code precedes *)
(* it; the server sees the field telefone only.                           *)
CsvRow(b, i) ==
    LET number == <<"1", "1", "9", "8", "7", "6", "5", "4", "3", DigitChar(b), DigitChar(i)>>
    IN  [telefone |-> number, nome |-> "Ana",
         mensagem |-> IF i % 2 = 0 THEN RowMessage ELSE NoMessage,
         national |-> number, explicit |-> FALSE]

CsvFile(b, n) == [i \in 1..n |-> CsvRow(b, i)]

(* The on('data') handler of /api/upload-csv: the row is kept when its    *)
(* phone has 10 digits or more, with 55 put in front unless it starts     *)
(* with 55.                                                               *)
KeepsRow(row) == Len(OnlyDigits(row.telefone)) >= 10

CsvContact(row) ==
    LET telefone == OnlyDigits(row.telefone)
    IN  [telefone |-> IF StartsWith55(telefone) THEN telefone ELSE <<"5", "5">> \o telefone,
         nome |-> row.nome,
         mensagem |-> IF row.mensagem # NoMessage THEN row.mensagem ELSE DefaultMessage]

CsvContacts(file) ==
    LET kept == SelectSeq(file, KeepsRow)
    IN  [k \in 1..Len(kept) |-> CsvContact(kept[k])]

Stale(procs) == [k \in 1..Len(procs) |-> [procs[k] EXCEPT !.stale = TRUE]]

Fresh(procs) == [k \in 1..Len(procs) |-> [procs[k] EXCEPT !.stale = FALSE]]

Remove(seq, k) == [j \in 1..(Len(seq) - 1) |-> IF j < k THEN seq[j] ELSE seq[j + 1]]

QueueUnchanged == UNCHANGED <<server, client, isConnected, queueVars, logVars>>

(* The outcome of a run-to-completion segment of one startSendingProcess   *)
(* call: the call as it now waits (alive) or its return, sendingData.current*)
(* whether a message was handed to the transport, the result logged for an *)
(* attempt that ended ("none": no attempt ended), and the text given to    *)
(* client.sendText with the position of its contact in the list.           *)
(* `sending` is the value of isSending the segment reads.                  *)
Segment(alive, loop, cur, sent, result) ==
    [alive |-> alive, loop |-> loop, cur |-> cur, sent |-> sent, result |-> result,
     to |-> 0, text |-> <<>>]

(* The record of a step that ran a segment of startSendingProcess. *)
SegmentEvent(op, code, stale, r) ==
    [Event(op, code, stale, r.sent, r.result) EXCEPT !.to = r.to, !.text = r.text]

(* After the try or the catch of iteration loop.i: current = i + 1, then   *)
(* the wait `if (i < contacts.length - 1 && isSending)`.  When that test   *)
(* fails so does the for condition `i + 1 < contacts.length && isSending`, *)
(* and the call returns.                                                   *)
AfterAttempt(loop, ok, sent, sending) ==
    LET result == IF ok THEN "success" ELSE "failure"
    IN  IF loop.i < Len(sendingData.contacts) - 1 /\ sending
        THEN Segment(TRUE, [loop EXCEPT !.pc = IF ok THEN "delay" ELSE "backoff"],
                     loop.i + 1, sent, result)
        ELSE Segment(FALSE, loop, loop.i + 1, sent, result)

(* The for condition and the start of iteration j.  part_001 calls         *)
(* client.sendText on a null client, which throws into the catch at once;  *)
(* server.js tests the client and falls back to its simulated send.        *)
BeginIteration(loop, j, cur, sending) ==
    IF ~(j < Len(sendingData.contacts) /\ sending)
    THEN Segment(FALSE, loop, cur, FALSE, "none")
    ELSE IF client
    THEN [Segment(TRUE, [loop EXCEPT !.i = j, !.pc = "sending"], cur, TRUE, "none")
            EXCEPT !.to = j + 1,
                   !.text = LoopMessage(loop.customMessage, sendingData.contacts[j + 1])]
    ELSE IF server = "server.js"
    THEN Segment(TRUE, [loop EXCEPT !.i = j, !.pc = "simulating"], cur, TRUE, "none")
    ELSE AfterAttempt([loop EXCEPT !.i = j], FALSE, TRUE, sending)

(* The requests to /api/upload-csv: without a file, or with the file b of *)
(* n rows.                                                                *)
CsvUploads ==
    {r \in [hasFile : BOOLEAN, b : 1..MaxUploads, n : 0..MaxBatch] :
        ~r.hasFile => r.b = 1 /\ r.n = 0}

(* POST /api/upload-csv *)
UploadCsv(hasFile, file) ==
    /\ server \in LoopServers
    /\ QueueUnchanged
    /\ LET contacts == CsvContacts(file)
       IN  IF ~hasFile \/ contacts = <<>>
           THEN /\ last' = Event("upload-csv", 400, FALSE, FALSE, "none")
                /\ UNCHANGED loopVars
           ELSE /\ sendingData' = [contacts |-> contacts, total |-> Len(contacts),
                                   current |-> 0]
                /\ last' = Event("upload-csv", 200, FALSE, FALSE, "none")
                /\ UNCHANGED <<isSending, loops, startTimers>>

(* startSendingProcess(delay, customMessage) up to its first await. *)
StartSendingProcess(delay, customMessage, op, code, stale) ==
    IF server = "server.js" /\ isSending
    THEN /\ last' = Event(op, code, stale, FALSE, "none")
         /\ UNCHANGED <<isSending, sendingData, loops>>
    ELSE LET new == [i |-> 0, pc |-> "sending", delay |-> delay,
                     customMessage |-> customMessage, stale |-> FALSE]
             r == BeginIteration(new, 0, 0, TRUE)
         IN  /\ isSending' = r.alive
             /\ sendingData' = [sendingData EXCEPT !.current = r.cur]
             /\ loops' = IF r.alive THEN Append(loops, r.loop) ELSE loops
             /\ last' = SegmentEvent(op, code, stale, r)

(* Times are in milliseconds since the local midnight of the request.     *)
DayMs == 24 * 60 * 60 * 1000

TimeOfDay(hours, minutes, ms) == (hours * 60 + minutes) * 60000 + ms

(* The times of day at which a request arrives. *)
Nows == {TimeOfDay(7, 59, 59999), TimeOfDay(8, 0, 0), TimeOfDay(9, 0, 0)}

(* No startTime in the request body. *)
NoStartTime == ""

(* startTime.split(':').map(Number) *)
SplitTime(startTime) == IF startTime = "08:00" THEN <<8, 0>> ELSE <<9, 0>>

(* waitTime with the target never moved to the next day. *)
WaitTime_Today(now, startTime) ==
    LET hm == SplitTime(startTime)
    IN  TimeOfDay(hm[1], hm[2], 0) - now

(* waitTime of /api/start-sending: targetTime is today at startTime, moved *)
(* to the next day when it is not after now.                               *)
WaitTime(now, startTime) ==
    LET hm == SplitTime(startTime)
        targetTime == TimeOfDay(hm[1], hm[2], 0)
    IN  IF targetTime <= now THEN targetTime + DayMs - now ELSE targetTime - now

(* /api/start-sending without the test of isSending. *)
StartSending_NoSendingCheck(delay, startTime, now, customMessage) ==
    /\ server \in LoopServers
    /\ QueueUnchanged
    /\ IF ~isConnected \/ Len(sendingData.contacts) = 0
       THEN /\ last' = Event("start-sending", 400, FALSE, FALSE, "none")
            /\ UNCHANGED loopVars
       ELSE /\ Len(loops) + Len(startTimers) < MaxPending
            /\ IF startTime # NoStartTime /\ WaitTime(now, startTime) > 0
               THEN /\ startTimers' = Append(Fresh(startTimers),
                           [delay |-> delay, customMessage |-> customMessage, stale |-> FALSE])
                    /\ last' = [Event("start-sending", 200, FALSE, FALSE, "none")
                                 EXCEPT !.wait = WaitTime(now, startTime)]
                    /\ UNCHANGED <<isSending, sendingData, loops>>
               ELSE /\ StartSendingProcess(delay, customMessage, "start-sending", 200, FALSE)
                    /\ startTimers' = Fresh(startTimers)

(* POST /api/start-sending *)
StartSending(delay, startTime, now, customMessage) ==
    /\ server \in LoopServers
    /\ QueueUnchanged
    /\ IF ~isConnected \/ Len(sendingData.contacts) = 0 \/ isSending
       THEN /\ last' = Event("start-sending", 400, FALSE, FALSE, "none")
            /\ UNCHANGED loopVars
       ELSE /\ Len(loops) + Len(startTimers) < MaxPending
            /\ IF startTime # NoStartTime /\ WaitTime(now, startTime) > 0
               THEN /\ startTimers' = Append(Fresh(startTimers),
                           [delay |-> delay, customMessage |-> customMessage, stale |-> FALSE])
                    /\ last' = [Event("start-sending", 200, FALSE, FALSE, "none")
                                 EXCEPT !.wait = WaitTime(now, startTime)]
                    /\ UNCHANGED <<isSending, sendingData, loops>>
               ELSE /\ StartSendingProcess(delay, customMessage, "start-sending", 200, FALSE)
                    /\ startTimers' = Fresh(startTimers)

(* The scheduled start comes due. *)
StartTimerFire(k) ==
    /\ server \in LoopServers
    /\ k \in 1..Len(startTimers)
    /\ QueueUnchanged
    /\ startTimers' = Remove(startTimers, k)
    /\ StartSendingProcess(startTimers[k].delay, startTimers[k].customMessage,
                           "start-timer", 0, startTimers[k].stale)

(* POST /api/stop-sending *)
StopSending ==
    /\ server \in LoopServers
    /\ QueueUnchanged
    /\ isSending' = FALSE
    /\ loops' = Stale(loops)
    /\ startTimers' = Stale(startTimers)
    /\ last' = Event("stop-sending", 200, FALSE, FALSE, "none")
    /\ UNCHANGED sendingData

(* One startSendingProcess call resumes from its await: the send settles   *)
(* (ok or not), or the wait it sleeps in ends.                             *)
LoopStep(k, ok) ==
    /\ server \in LoopServers
    /\ k \in 1..Len(loops)
    /\ QueueUnchanged
    /\ loops[k].pc \in {"delay", "backoff"} => ok
    /\ LET loop == loops[k]
           r == CASE loop.pc = "sending" /\ ok -> AfterAttempt(loop, TRUE, FALSE, isSending)
                  [] loop.pc = "sending" /\ ~ok /\ server = "server.js" ->
                        Segment(TRUE, [loop EXCEPT !.pc = "simulating"], sendingData.current,
                                FALSE, "none")
                  [] loop.pc = "sending" /\ ~ok /\ server # "server.js" ->
                        AfterAttempt(loop, FALSE, FALSE, isSending)
                  [] loop.pc = "simulating" -> AfterAttempt(loop, ok, FALSE, isSending)
                  [] OTHER -> BeginIteration(loop, loop.i + 1, sendingData.current, isSending)
       IN  /\ loops' = IF r.alive THEN [loops EXCEPT ![k] = r.loop] ELSE Remove(loops, k)
           /\ isSending' = IF r.alive THEN isSending ELSE FALSE
           /\ sendingData' = [sendingData EXCEPT !.current = r.cur]
           /\ last' = [SegmentEvent("loop", 0, loop.stale, r)
                        EXCEPT !.failed = @ \/ (loop.pc = "sending" /\ ~ok)]
    /\ UNCHANGED startTimers

(***************************************************************************)
(* The log buffer of the loop servers                                      *)
(*                                                                         *)
(* sendingData.logs is written by addLog and by /api/clear-logs only and   *)
(* read by no handler that decides anything.  It is modelled on its own:   *)
(* AddLog is one call of addLog, whoever makes it, and the specifications  *)
(* of the send loop leave the buffer out.                                  *)
(***************************************************************************)

(* The capacity of the buffer and the number of calls of addLog followed. *)
MaxLogs == 100
MaxAdded == 102

(* slice(0, 100) in place of slice(-100). *)
Slice_KeepsOldest(entries) ==
    IF Len(entries) > MaxLogs THEN SubSeq(entries, 1, MaxLogs) ELSE entries

(* if (logs.length > 100) logs = logs.slice(-100) *)
Slice(entries) ==
    IF Len(entries) > MaxLogs
    THEN SubSeq(entries, Len(entries) - MaxLogs + 1, Len(entries))
    ELSE entries

(* The entry of the n-th call of addLog; n stands for its timestamp. *)
LogEntry(n, message) == [n |-> n, message |-> message]

Calls == IF added = <<>> THEN 0 ELSE added[Len(added)].n

(* addLog(message) *)
AddLog(message) ==
    /\ server \in LoopServers
    /\ Calls < MaxAdded
    /\ logs' = Slice(Append(logs, LogEntry(Calls + 1, message)))
    /\ added' = Append(added, LogEntry(Calls + 1, message))
    /\ last' = Event("add-log", 0, FALSE, FALSE, "none")
    /\ UNCHANGED <<server, client, isConnected, queueVars, loopVars>>

(* POST /api/clear-logs, a route of server.js only. *)
ClearLogs ==
    /\ server = "server.js"
    /\ Calls < MaxAdded
    /\ logs' = Slice(Append(<<>>, LogEntry(Calls + 1, "Logs limpos pelo usuário")))
    /\ added' = <<LogEntry(Calls + 1, "Logs limpos pelo usuário")>>
    /\ last' = Event("clear-logs", 200, FALSE, FALSE, "none")
    /\ UNCHANGED <<server, client, isConnected, queueVars, loopVars>>

(***************************************************************************)
(* The transport                                                           *)
(***************************************************************************)

(* wppconnect.create / makeWASocket has returned the client object. *)
ClientCreated ==
    /\ ~client
    /\ client' = TRUE
    /\ last' = Event("client", 0, FALSE, FALSE, "none")
    /\ UNCHANGED <<server, isConnected, queueVars, loopVars, logVars>>

(* statusFind / connection.update.  The loop servers only ever set         *)
(* isConnected to true.                                                    *)
StatusFind(connected) ==
    /\ isConnected # connected
    /\ server \in LoopServers => connected
    /\ isConnected' = connected
    /\ last' = Event("status", 0, FALSE, FALSE, "none")
    /\ UNCHANGED <<server, client, queueVars, loopVars, logVars>>

(***************************************************************************)
(* The system                                                              *)
(***************************************************************************)

Init ==
    /\ server \in QueueServers \cup LoopServers
    /\ client = FALSE
    /\ isConnected = FALSE
    /\ messageQueue = <<>>
    /\ currentConfig = [delay |-> 5000, startTime |-> NullTime, isRunning |-> FALSE]
    /\ cronJobs = <<>>
    /\ delayTimers = [b \in BOOLEAN |-> 0]
    /\ inFlight = {}
    /\ batch = <<>>
    /\ handed = <<>>
    /\ hist = [started |-> FALSE, stopped |-> FALSE, failed |-> FALSE, finished |-> 0]
    /\ isSending = FALSE
    /\ sendingData = [contacts |-> <<>>, total |-> 0, current |-> 0]
    /\ loops = <<>>
    /\ startTimers = <<>>
    /\ logs = <<>>
    /\ added = <<>>
    /\ last = Event("init", 0, FALSE, FALSE, "none")

Next ==
    \/ \E r \in UploadRequests : Upload(r.hasFile, r.fieldsOk, r.n, r.delay, r.startTime)
    \/ StartNow
    \/ Stop
    \/ \E k \in 1..MaxUploads : CronFire(k)
    \/ \E stale \in BOOLEAN : TimerFire(stale)
    \/ \E job \in inFlight, ok \in BOOLEAN : SendDone(job, ok)
    \/ \E r \in CsvUploads : UploadCsv(r.hasFile, CsvFile(r.b, r.n))
    \/ \E delay \in LoopDelays, startTime \in StartTimes \cup {NoStartTime}, now \in Nows,
          customMessage \in CustomMessages :
          StartSending(delay, startTime, now, customMessage)
    \/ \E k \in 1..MaxPending : StartTimerFire(k)
    \/ StopSending
    \/ \E k \in 1..MaxPending, ok \in BOOLEAN : LoopStep(k, ok)
    \/ ClientCreated
    \/ \E connected \in BOOLEAN : StatusFind(connected)

Spec == Init /\ [][Next]_vars

(* One queue server on its own. *)
InitQueue == Init /\ server \in QueueServers

NextQueue ==
    \/ \E r \in UploadRequests : Upload(r.hasFile, r.fieldsOk, r.n, r.delay, r.startTime)
    \/ StartNow
    \/ Stop
    \/ \E k \in 1..MaxUploads : CronFire(k)
    \/ \E stale \in BOOLEAN : TimerFire(stale)
    \/ \E job \in inFlight, ok \in BOOLEAN : SendDone(job, ok)
    \/ ClientCreated
    \/ \E connected \in BOOLEAN : StatusFind(connected)

SpecQueue == InitQueue /\ [][NextQueue]_vars

(* One loop server on its own. *)
InitLoop == Init /\ server \in LoopServers

NextLoop ==
    \/ \E r \in CsvUploads : UploadCsv(r.hasFile, CsvFile(r.b, r.n))
    \/ \E delay \in LoopDelays, startTime \in StartTimes \cup {NoStartTime}, now \in Nows,
          customMessage \in CustomMessages :
          StartSending(delay, startTime, now, customMessage)
    \/ \E k \in 1..MaxPending : StartTimerFire(k)
    \/ StopSending
    \/ \E k \in 1..MaxPending, ok \in BOOLEAN : LoopStep(k, ok)
    \/ ClientCreated
    \/ \E connected \in BOOLEAN : StatusFind(connected)

SpecLoop == InitLoop /\ [][NextLoop]_vars

(* The CSV ingestion of a loop server on files made of the rows that the  *)
(* normalisation treats differently.                                      *)
EdgeRow(telefone, national, explicit) ==
    [telefone |-> telefone, nome |-> "Ana", mensagem |-> NoMessage,
     national |-> national, explicit |-> explicit]

EdgeRows ==
    LET mobile == <<"1", "1", "9", "8", "7", "6", "5", "4", "3", "2", "1">>
        other == <<"2", "1", "9", "1", "2", "3", "4", "5", "6", "7", "8">>
        landline == <<"3", "1", "8", "7", "6", "5", "4", "3", "2", "1">>
        area55 == <<"5", "5", "9", "8", "7", "6", "5", "4", "3", "2", "1">>
    IN  { EdgeRow(mobile, mobile, FALSE),
          EdgeRow(<<"5", "5">> \o other, other, TRUE),
          EdgeRow(<<"+", "5", "5", " ", "(", "3", "1", ")", " ", "8", "7", "6", "5", "-",
                    "4", "3", "2", "1">>, landline, TRUE),
          EdgeRow(<<"(", "3", "1", ")", " ", "8", "7", "6", "5", "-", "4", "3", "2", "1">>,
                  landline, FALSE),
          EdgeRow(<<>>, <<>>, FALSE),
          EdgeRow(<<"9", "8", "7", "6", "5", "4", "3", "2", "1">>,
                  <<"9", "8", "7", "6", "5", "4", "3", "2", "1">>, FALSE),
          EdgeRow(area55, area55, FALSE) }

MaxRows == 2

EdgeFiles == UNION {[1..n -> EdgeRows] : n \in 1..MaxRows}

InitCsv == InitLoop

NextCsv ==
    \/ \E file \in EdgeFiles : UploadCsv(TRUE, file)
    \/ ClientCreated
    \/ \E connected \in BOOLEAN : StatusFind(connected)

SpecCsv == InitCsv /\ [][NextCsv]_vars

(* A queue server between one accepted upload and the end of its drain:   *)
(* no stop, no further upload.  Every send returns and every timer that   *)
(* was set comes due; a cron job may fire or not.                         *)
FirstUpload(hasFile, fieldsOk, n, delay, startTime) ==
    /\ cronJobs = <<>>
    /\ batch = <<>>
    /\ Upload(hasFile, fieldsOk, n, delay, startTime)

NextDrain ==
    \/ \E r \in UploadRequests : FirstUpload(r.hasFile, r.fieldsOk, r.n, r.delay, r.startTime)
    \/ StartNow
    \/ \E k \in 1..MaxUploads : CronFire(k)
    \/ \E stale \in BOOLEAN : TimerFire(stale)
    \/ \E job \in inFlight, ok \in BOOLEAN : SendDone(job, ok)
    \/ ClientCreated
    \/ \E connected \in BOOLEAN : StatusFind(connected)

SpecDrain ==
    /\ InitQueue
    /\ [][NextDrain]_vars
    /\ WF_vars(\E job \in inFlight, ok \in BOOLEAN : SendDone(job, ok))
    /\ WF_vars(\E stale \in BOOLEAN : TimerFire(stale))

(* A loop server from its first accepted upload-csv on, with no further   *)
(* upload and no stop-sending.  Every await of startSendingProcess ends:   *)
(* the send settles, the setTimeout of a wait comes due.                   *)
FirstUploadCsv(hasFile, file) ==
    /\ sendingData.contacts = <<>>
    /\ UploadCsv(hasFile, file)

NextRun ==
    \/ \E r \in CsvUploads : FirstUploadCsv(r.hasFile, CsvFile(r.b, r.n))
    \/ \E delay \in LoopDelays, startTime \in StartTimes \cup {NoStartTime}, now \in Nows,
          customMessage \in CustomMessages :
          StartSending(delay, startTime, now, customMessage)
    \/ \E k \in 1..MaxPending : StartTimerFire(k)
    \/ \E k \in 1..MaxPending, ok \in BOOLEAN : LoopStep(k, ok)
    \/ ClientCreated
    \/ \E connected \in BOOLEAN : StatusFind(connected)

SpecRun ==
    /\ InitLoop
    /\ [][NextRun]_vars
    /\ WF_vars(\E k \in 1..MaxPending, ok \in BOOLEAN : LoopStep(k, ok))

(* The log buffer of a loop server. *)
NextLogs ==
    \/ AddLog("message")
    \/ ClearLogs

SpecLogs == InitLoop /\ [][NextLogs]_vars

(***************************************************************************)
(* The claims                                                              *)
(***************************************************************************)

IsPrefix(a, b) == Len(a) <= Len(b) /\ a = SubSeq(b, 1, Len(a))

Drained == messageQueue = <<>> /\ ~currentConfig.isRunning

(* C1: on a queue server at most one drain loop is active at any time: the *)
(* sends in flight plus the armed processMessageQueue timers are at most 1.*)
C1_AtMostOneDrainLoop == server \in QueueServers => Pending <= 1

(* C2: on a queue server, while isRunning is false (as it is from a stop   *)
(* until the next start-now or cron firing), no step other than a start    *)
(* hands a job to send or adds a send in flight, and the steps of the      *)
(* drain loop (a timer coming due, a send returning) leave the queue as it *)
(* is: the send in flight only completes.                                  *)
C2_StoppedLoopTakesNoJob ==
    [][(server \in QueueServers /\ ~currentConfig.isRunning
            /\ last'.op \notin {"start-now", "cron"})
        => /\ ~last'.sent
           /\ inFlight' \subseteq inFlight
           /\ last'.op \in {"timer", "send-done"}
                => messageQueue' = messageQueue /\ handed' = handed]_vars

(* C2's case: after a stop, with jobs still queued, the delay timer came   *)
(* due and no job was taken.                                               *)
C2_Witness ==
    /\ server = "part_000"
    /\ last.op = "timer" /\ ~last.sent
    /\ hist.stopped /\ ~currentConfig.isRunning
    /\ messageQueue # <<>>

(* C3: a delay timer that was pending when stop was called never hands a   *)
(* job to send when it comes due, whatever happened in between.            *)
C3_StoppedTimerNeverSends == ~(last.op = "timer" /\ last.stale /\ last.sent)

(* C4: a scheduled start (cron job, or the setTimeout of /api/start-sending)*)
(* that comes due after a stop, with no start request made since that stop, *)
(* sends nothing and leaves isRunning / isSending false.                   *)
C4_StoppedScheduleNeverStarts ==
    /\ (last.op = "cron" /\ last.stale) => (~last.sent /\ ~currentConfig.isRunning)
    /\ (last.op = "start-timer" /\ last.stale) => (~last.sent /\ ~isSending)

(* C5: with no stop and no further upload, an accepted start-now leads to  *)
(* the queue empty and isRunning false, whatever the sends return; and     *)
(* isRunning falls from true to false only in a step that ends with the    *)
(* queue empty and isRunning false, so it falls once in the run that ends  *)
(* there.                                                                  *)
C5_DrainsToIdleOnce ==
    /\ (last.op = "start-now" /\ last.code = 200) ~> Drained
    /\ [][(currentConfig.isRunning /\ ~currentConfig'.isRunning) => Drained']_vars

(* C5's case: a batch of three jobs, started, has drained with a failed    *)
(* send among successful ones.                                             *)
C5_Witness ==
    /\ Drained /\ hist.started /\ hist.failed
    /\ Len(batch) = MaxBatch /\ handed = batch
    /\ last.op = "send-done" /\ last.result = "success"

(* C6: an upload while a batch is running (isRunning on a queue server,    *)
(* isSending on a loop server) is answered 400 and changes no state.       *)
C6_UploadWhileRunningRejected ==
    [][(last'.op = "upload" /\ currentConfig.isRunning) \/ (last'.op = "upload-csv" /\ isSending)
        => /\ last'.code = 400
           /\ UNCHANGED <<queueVars, loopVars>>]_vars

(* C7: /api/start-now on an empty queue answers 400 and changes nothing:   *)
(* isRunning keeps its value, the queue stays empty, no send and no timer  *)
(* is started.                                                             *)
C7_StartNowOnEmptyQueue ==
    [][(server \in QueueServers /\ last'.op = "start-now" /\ messageQueue = <<>>)
        => /\ last'.code = 400 /\ ~last'.sent
           /\ UNCHANGED <<queueVars, loopVars>>]_vars

(* C7's case: start-now was refused on an empty queue while isRunning was  *)
(* true.                                                                   *)
C7_Witness ==
    /\ last.op = "start-now" /\ last.code = 400
    /\ messageQueue = <<>> /\ currentConfig.isRunning

(* C8: a start request while running (start-now with isRunning, or         *)
(* start-sending with isSending) answers 400, sends nothing and changes no *)
(* state: queue and order, progress, flags and timers stay as they were.   *)
C8_StartWhileRunningRejected ==
    [][(last'.op = "start-now" /\ currentConfig.isRunning) \/ (last'.op = "start-sending" /\ isSending)
        => /\ last'.code = 400 /\ ~last'.sent
           /\ UNCHANGED <<queueVars, loopVars>>]_vars

(* C8's case: start-sending was refused while a send loop was running with *)
(* contacts still to go.                                                   *)
C8_Witness ==
    /\ last.op = "start-sending" /\ last.code = 400
    /\ isSending /\ loops # <<>> /\ sendingData.current < sendingData.total

(* C9: an accepted upload makes the queue exactly the new batch, leaves    *)
(* isRunning, the sends in flight and the timers as they were and hands no *)
(* job to send; and no job of the batch is handed to send before a         *)
(* start-now is accepted or a cron job fires at the batch's start time.    *)
C9_UploadDoesNotStartSending ==
    [][(server \in QueueServers)
        => /\ (last'.op = "upload" /\ last'.code = 200)
                => /\ messageQueue' = batch' /\ handed' = <<>> /\ ~last'.sent
                   /\ \A i \in DOMAIN messageQueue' :
                        \A j \in DOMAIN messageQueue : messageQueue'[i] # messageQueue[j]
                   /\ currentConfig'.isRunning = currentConfig.isRunning
                   /\ UNCHANGED <<inFlight, delayTimers>>
           /\ ~hist'.started => handed' = <<>>]_vars

(* C10: the jobs handed to send since the upload are a prefix of the batch *)
(* in CSV order with no job twice, and with the jobs still queued they make *)
(* up the batch (on part_002 a stop empties the queue instead); so a batch *)
(* that drains without a stop has had every job handed to send once.       *)
C10_FifoExactlyOnce ==
    server \in QueueServers
        => /\ IsPrefix(handed, batch)
           /\ \A i, j \in DOMAIN handed : i # j => handed[i] # handed[j]
           /\ IF server = "part_002" /\ hist.stopped
              THEN messageQueue = <<>>
              ELSE handed \o messageQueue = batch

(* C10's case: three jobs, every send succeeded, none stopped: all three   *)
(* were handed to send in order, the queue is empty and isRunning false.   *)
C10_Witness ==
    /\ Len(batch) = 3 /\ handed = batch
    /\ hist.started /\ ~hist.stopped /\ ~hist.failed
    /\ Drained /\ Pending = 0
    /\ last.op = "send-done" /\ last.result = "success"

(* A step in which a send fails records a failure for the job and goes on  *)
(* as after a success: on a queue server the job is not put back (the      *)
(* queue is what it was, less at most the job just taken), and when jobs   *)
(* remain the next processMessageQueue is armed and isRunning is not       *)
(* cleared; on a loop server isSending is cleared only when the failed job *)
(* was the last one.                                                       *)
FailedSendHandled ==
    last'.failed
        => /\ last'.result = "failure"
           /\ (server \in QueueServers)
                => /\ \E n \in 0..1 : messageQueue' = SubSeq(messageQueue, n + 1, Len(messageQueue))
                   /\ messageQueue' # <<>>
                        => /\ delayTimers'[FALSE] > 0
                           /\ currentConfig.isRunning => currentConfig'.isRunning
           /\ (server \in LoopServers /\ isSending /\ ~isSending')
                => sendingData'.current >= Len(sendingData'.contacts)

(* C11: a failed send is never fatal to the batch and never retried: every *)
(* step in which a send fails records the failure and goes on as after a   *)
(* success, on every server.                                               *)
C11_FailedSendIsRecordedAndSkipped == [][FailedSendHandled]_vars

(* C11 on the servers other than server.js. *)
C11_ExceptServerJs == [][server # "server.js" => FailedSendHandled]_vars

(* C12: on part_002, a step in which a send ends and leaves the queue      *)
(* empty sets isRunning false and emits 'queue-finished'; the event is     *)
(* emitted at most once per batch, and once when the loop has drained the  *)
(* batch; and whenever the queue is empty and no send is in flight,        *)
(* isRunning is false.                                                     *)
C12_QueueFinishedOnce ==
    /\ [](server = "part_002"
            => /\ hist.finished <= 1
               /\ (handed = batch /\ batch # <<>> /\ Pending = 0) => hist.finished = 1
               /\ (messageQueue = <<>> /\ inFlight = {}) => ~currentConfig.isRunning)
    /\ [][(server = "part_002" /\ last'.result # "none" /\ messageQueue' = <<>>)
            => /\ ~currentConfig'.isRunning
               /\ hist'.finished = hist.finished + 1]_vars

(* C12 without its last part: the event and the flag at the end of a drain.*)
C12_EventOnly ==
    /\ [](server = "part_002"
            => /\ hist.finished <= 1
               /\ (handed = batch /\ batch # <<>> /\ Pending = 0) => hist.finished = 1)
    /\ [][(server = "part_002" /\ last'.result # "none" /\ messageQueue' = <<>>)
            => /\ ~currentConfig'.isRunning
               /\ hist'.finished = hist.finished + 1]_vars

(* C13: on a queue server an upload without its file, without one of its   *)
(* fields, or whose CSV yields no contact is answered 400 and leaves the   *)
(* queue, the delay, the start time, isRunning and the armed timers and    *)
(* cron jobs as they were.                                                 *)
C13_InvalidUploadRejected ==
    [][(last'.op = "upload")
        => \A r \in UploadRequests :
              ((~r.hasFile \/ ~r.fieldsOk \/ r.n = 0)
                  /\ Upload(r.hasFile, r.fieldsOk, r.n, r.delay, r.startTime))
              => /\ last'.code = 400
                 /\ UNCHANGED schedVars]_vars

(* C13's case: an upload was refused while a batch was queued and running, *)
(* with its cron job armed.                                                *)
C13_Witness ==
    /\ last.op = "upload" /\ last.code = 400
    /\ messageQueue # <<>> /\ currentConfig.isRunning
    /\ cronJobs # <<>> /\ Pending > 0

(* C14: on a queue server an upload whose start time is malformed is       *)
(* answered 400 and leaves the queue, the delay and the start time as they *)
(* were.                                                                   *)
C14_MalformedStartTimeRejected ==
    [][(last'.op = "upload")
        => \A r \in UploadRequests :
              (r.startTime = Malformed
                  /\ Upload(r.hasFile, r.fieldsOk, r.n, r.delay, r.startTime))
              => /\ last'.code = 400
                 /\ UNCHANGED <<messageQueue, currentConfig>>]_vars

(* C15: an accepted /api/start-sending with a start time HH:MM arms the    *)
(* start for the next occurrence of HH:MM strictly after the request: the  *)
(* wait is more than 0 and at most 24 hours and ends at HH:MM, today when  *)
(* HH:MM is later than now and on the next day otherwise; the request      *)
(* itself sends nothing and starts no loop, it leaves one timer.           *)
C15_NextOccurrence ==
    [][(last'.op = "start-sending" /\ last'.code = 200)
        => \A delay \in LoopDelays, startTime \in StartTimes, now \in Nows,
              customMessage \in CustomMessages :
          StartSending(delay, startTime, now, customMessage)
          => LET targetTime == TimeOfDay(SplitTime(startTime)[1], SplitTime(startTime)[2], 0)
             IN  /\ last'.wait > 0 /\ last'.wait <= DayMs
                 /\ (now + last'.wait) % DayMs = targetTime
                 /\ (targetTime > now) = (now + last'.wait < DayMs)
                 /\ ~last'.sent
                 /\ UNCHANGED <<isSending, sendingData, loops>>
                 /\ Len(startTimers') = Len(startTimers) + 1]_vars

(* C15's case: 08:00 was requested at 09:00 and the start is armed 23      *)
(* hours ahead, with nothing sent.                                         *)
C15_Witness ==
    /\ last.op = "start-sending" /\ last.code = 200
    /\ last.wait = 23 * 60 * 60 * 1000
    /\ ~isSending /\ loops = <<>> /\ Len(startTimers) = 1

(* C16: a start request (start-now on a queue server, start-sending on a   *)
(* loop server) while isConnected is false is answered 400, hands no job   *)
(* to send and changes no state: flags, queue, progress and timers.        *)
C16_StartWhileNotConnectedRejected ==
    [][(last'.op \in {"start-now", "start-sending"} /\ ~isConnected)
        => /\ last'.code = 400 /\ ~last'.sent
           /\ UNCHANGED <<queueVars, loopVars>>]_vars

(* C16 on the loop servers alone. *)
C16_LoopServers ==
    [][(last'.op = "start-sending" /\ ~isConnected)
        => /\ last'.code = 400 /\ ~last'.sent
           /\ UNCHANGED <<queueVars, loopVars>>]_vars

(* C17: on part_000 /api/stop can be called in every state, answers 200,   *)
(* leaves isRunning false and leaves the queue, the delay and the start    *)
(* time as they were; and a start-now accepted after a stop, once no send  *)
(* is in flight and no timer armed, takes the first of the remaining jobs: *)
(* the jobs handed to send and the jobs queued are still the batch in its  *)
(* order, no job handed twice.                                             *)
C17_StopPauses ==
    /\ [](server = "part_000" => ENABLED Stop)
    /\ [][(server = "part_000")
            => /\ last'.op = "stop"
                    => /\ last'.code = 200 /\ ~currentConfig'.isRunning
                       /\ messageQueue' = messageQueue
                       /\ currentConfig'.delay = currentConfig.delay
                       /\ currentConfig'.startTime = currentConfig.startTime
               /\ (last'.op = "start-now" /\ last'.code = 200 /\ hist.stopped /\ Pending = 0)
                    => /\ handed' = Append(handed, Head(messageQueue))
                       /\ messageQueue' = Tail(messageQueue)
                       /\ handed' \o messageQueue' = batch
                       /\ \A i, j \in DOMAIN handed' : i # j => handed'[i] # handed'[j]]_vars

(* C17's case: on part_000 a batch of three was stopped after its first    *)
(* job, became idle, and start-now has handed the second job to send with  *)
(* the third still queued.                                                 *)
C17_Witness ==
    /\ server = "part_000"
    /\ last.op = "start-now" /\ last.code = 200 /\ last.sent
    /\ hist.stopped /\ Pending = 1 /\ inFlight # {}
    /\ Len(handed) = 2 /\ Len(messageQueue) = 1 /\ Len(batch) = 3

(* The text a message is to be sent as: every {name} token replaced by the *)
(* recipient's name, everything else as it is.                             *)
Rendered(message, nome) == ReplaceAll(message, "{name}", nome)

(* The text given to the transport is the message of the job (on a loop    *)
(* server: the custom message or the contact's message) with every {name}  *)
(* token replaced by the name.                                             *)
TextIsRendered ==
    last.text # <<>>
        => IF server \in QueueServers
           THEN LET job == handed[Len(handed)]
                IN  last.text = Rendered(job.mensagem, job.nome)
           ELSE LET contact == sendingData.contacts[last.to]
                IN  \E m \in (CustomMessages \ {NoMessage}) \cup {contact.mensagem} :
                        last.text = Rendered(m, contact.nome)

(* C18: on every server the text given to the transport has every {name}   *)
(* token of the message replaced by the recipient's name ("Hi {name}!" for *)
(* Ana is sent as "Hi Ana!"), and a message without the token is sent as   *)
(* it is.                                                                  *)
C18_PlaceholderReplaced == TextIsRendered

(* C18 on part_002 alone. *)
C18_Part002 == server = "part_002" => TextIsRendered

(* On a queue server the message of the job handed to sendMessage is the   *)
(* message of its CSV row when the row has one, the message of the upload  *)
(* when it has none.                                                       *)
QueueSelectsRowMessage ==
    (server \in QueueServers /\ last.sent)
        => LET job == handed[Len(handed)]
               row == Contact(job.numero \div 10, job.numero % 10)
           IN  job.mensagem = IF row.mensagem # NoMessage THEN row.mensagem ELSE Template

(* On a loop server the text given to client.sendText is made from the     *)
(* contact's own message when its row had one (the contact then holds a    *)
(* message other than the default), from the custom message of the request *)
(* or the default when the row had none.                                   *)
LoopSelectsRowMessage ==
    (server \in LoopServers /\ last.text # <<>>)
        => LET contact == sendingData.contacts[last.to]
           IN  IF contact.mensagem # DefaultMessage
               THEN last.text = ReplaceAll(contact.mensagem, "{nome}", contact.nome)
               ELSE \E m \in (CustomMessages \ {NoMessage}) \cup {DefaultMessage} :
                        last.text = ReplaceAll(m, "{nome}", contact.nome)

(* C19: the text sent to a contact is the contact's own per-row message    *)
(* when its CSV row supplied one, and the shared message of the batch only *)
(* when the row supplied none, on the queue servers and the loop servers.  *)
C19_RowMessageFirst == QueueSelectsRowMessage /\ LoopSelectsRowMessage

(* C19 on the queue servers alone. *)
C19_QueueServers == QueueSelectsRowMessage

(* The recipient the claim gives a row: 55 and the national number. *)
Recipient(row) == <<"5", "5">> \o row.national

(* The batch the claim gives a file: the rows whose phone has 10 digits or *)
(* more, in the order of the file, each under its recipient.               *)
ExpectedBatch(file) ==
    LET kept == SelectSeq(file, KeepsRow)
    IN  [k \in 1..Len(kept) |-> Recipient(kept[k])]

IngestsAsClaimed(file) ==
    (last'.op = "upload-csv" /\ last'.code = 200 /\ UploadCsv(TRUE, file))
        => /\ [k \in DOMAIN sendingData'.contacts |-> sendingData'.contacts[k].telefone]
                = ExpectedBatch(file)
           /\ \A k \in DOMAIN sendingData'.contacts :
                \A c \in DOMAIN sendingData'.contacts[k].telefone :
                    IsDigit(sendingData'.contacts[k].telefone[c])

(* C20: the batch /api/upload-csv keeps holds, in the order of the file,   *)
(* the rows whose phone has 10 digits or more, each with a digits-only     *)
(* recipient that is 55 followed by the national number of the row: 55 is  *)
(* put in front of a phone written without country code and a phone        *)
(* written with it is kept as it is.                                       *)
C20_RecipientsNormalised == [][\A file \in EdgeFiles : IngestsAsClaimed(file)]_vars

(* C20 on the files without a national number that begins with 55. *)
C20_ExceptAreaCode55 ==
    [][\A file \in EdgeFiles :
          (\A k \in DOMAIN file : file[k].explicit \/ ~StartsWith55(file[k].national))
              => IngestsAsClaimed(file)]_vars

(* C21: on a loop server at most one startSendingProcess call is iterating *)
(* at any time, and a call that has seen a stop-sending hands no further   *)
(* message to the transport when it resumes.                               *)
StoppedLoopSends == last.op = "loop" /\ last.stale /\ last.sent

C21_AtMostOneLoop ==
    server \in LoopServers => Len(loops) <= 1 /\ ~StoppedLoopSends

(* C22: on part_002 a step emits 'queue-finished' only for a batch that was *)
(* not stopped and whose jobs have all been handed to sendMessage; a send  *)
(* that returns after /api/stop emits none.                                *)
EmitsQueueFinished == server = "part_002" /\ hist'.finished > hist.finished

C22_StoppedBatchNotFinished ==
    [][EmitsQueueFinished => ~hist.stopped /\ handed' = batch]_vars

(* C23: on part_002 /api/stop leaves the queue empty and isRunning false;  *)
(* the queue becomes non-empty again only by an upload (StopEmptiesQueue   *)
(* takes the upload's status as a parameter of the claim: the successful   *)
(* ones, or any), a start-now on the empty queue is answered 400 and       *)
(* changes nothing, and from the stop to the next upload no job is handed  *)
(* to sendMessage.                                                         *)
StopEmptiesQueue(codes) ==
    server = "part_002" =>
        /\ last'.op = "stop" => messageQueue' = <<>> /\ ~currentConfig'.isRunning
        /\ (hist.stopped /\ messageQueue' # <<>>)
               => last'.op = "upload" /\ last'.code \in codes
        /\ (last'.op = "start-now" /\ messageQueue = <<>>)
               => last'.code = 400 /\ UNCHANGED schedVars
        /\ hist.stopped => handed' = handed \/ last'.op = "upload"

C23_StopEmptiesQueue == [][StopEmptiesQueue({200})]_vars

(* C23 with the upload that refills the queue allowed to be one that was   *)
(* answered 500.                                                           *)
C23_UntilAnyUpload == [][StopEmptiesQueue({200, 500})]_vars

(* C24: on a queue server, whenever isRunning is true a send is in flight  *)
(* or a processMessageQueue timer is armed.                                *)
C24_RunningMeansActive ==
    (server \in QueueServers /\ currentConfig.isRunning) => Pending > 0

(* C25: on a queue server, once a later upload has armed a schedule with a *)
(* different start time, the firing of an earlier upload's cron job neither*)
(* sets isRunning nor hands a job to sendMessage.                          *)
Superseded(k) ==
    k < Len(cronJobs) /\ cronJobs[k].startTime # cronJobs[Len(cronJobs)].startTime

C25_OnlyLatestScheduleStarts ==
    [][(last'.op = "cron")
        => \A k \in 1..MaxUploads :
              (Superseded(k) /\ CronFire(k))
              => ~last'.sent /\ UNCHANGED <<messageQueue, currentConfig, inFlight>>]_vars

(* C26: on a loop server, in a run that is neither stopped nor disturbed  *)
(* by an upload, every iteration that starts is the one of the contact at  *)
(* position sendingData.current (the first of a call is the one of contact *)
(* 0), sendingData.current moves by one at a time, and the run ends:       *)
(* isSending true leads to isSending false with current = total.           *)
Finished == ~isSending /\ sendingData.current = sendingData.total

StartsRun == last'.op \in {"start-sending", "start-timer"} /\ last'.sent

RunInOrder ==
    /\ StartsRun => sendingData'.current \in {0, 1}
    /\ (last'.op = "loop") =>
          /\ sendingData'.current \in {sendingData.current, sendingData.current + 1}
          /\ \A k \in 1..MaxPending, ok \in BOOLEAN :
                (LoopStep(k, ok) /\ last'.sent) => loops[k].i + 1 = sendingData.current

C26_RunProcessesEveryContact ==
    /\ [][RunInOrder]_vars
    /\ isSending ~> Finished

(* C26 on server.js alone. *)
C26_ServerJs ==
    /\ [][server = "server.js" => RunInOrder]_vars
    /\ (server = "server.js" /\ isSending) ~> Finished

(* C27: on a loop server the progress counters always satisfy              *)
(* 0 <= current <= total, and total is the length of the contact list.     *)
C27_ProgressWithinBounds ==
    server \in LoopServers =>
        /\ 0 <= sendingData.current
        /\ sendingData.current <= sendingData.total
        /\ sendingData.total = Len(sendingData.contacts)

(* C27 without the upper bound of current. *)
C27_TotalIsLength ==
    server \in LoopServers =>
        /\ 0 <= sendingData.current
        /\ sendingData.total = Len(sendingData.contacts)

(* C28: on a loop server, when the attempt on a contact ends the call      *)
(* waits the configured delay after a success and the 1-second backoff     *)
(* after a failure, if the contact is not the last one and isSending is    *)
(* still true, and otherwise does not wait; and a send only ever starts at *)
(* the start of a call or out of one such wait.                            *)
(* WaitAfter(k) is the wait call k is left in by the step ("none": it has  *)
(* returned), AttemptIndex(k) the index of the contact the step is about.  *)
WaitAfter(k) == IF Len(loops') = Len(loops) THEN loops'[k].pc ELSE "none"

AttemptIndex(k) ==
    IF loops[k].pc \in {"delay", "backoff"} THEN loops[k].i + 1 ELSE loops[k].i

NotLast(k) == AttemptIndex(k) < Len(sendingData.contacts) - 1 /\ isSending

(* The wait chosen by the result the code recorded for the attempt. *)
WaitAsRecorded ==
    /\ (last'.op = "loop" /\ last'.result # "none") =>
          \A k \in 1..MaxPending, ok \in BOOLEAN :
             LoopStep(k, ok) =>
                WaitAfter(k) = IF ~NotLast(k) THEN "none"
                               ELSE IF last'.result = "success" THEN "delay" ELSE "backoff"
    /\ (last'.op \in {"start-sending", "start-timer"} /\ last'.result # "none") =>
          IF 0 < Len(sendingData.contacts) - 1
          THEN Len(loops') = Len(loops) + 1 /\ loops'[Len(loops')].pc = "backoff"
          ELSE Len(loops') = Len(loops)

(* The wait after a send that the transport rejected. *)
WaitAfterFailedSend ==
    (last'.op = "loop" /\ last'.failed) =>
        \A k \in 1..MaxPending :
           (LoopStep(k, FALSE) /\ loops[k].pc = "sending") =>
              WaitAfter(k) = IF NotLast(k) THEN "backoff" ELSE "none"

OneWaitBetweenSends ==
    (last'.op = "loop" /\ last'.sent) =>
        \A k \in 1..MaxPending, ok \in BOOLEAN :
           LoopStep(k, ok) => loops[k].pc \in {"delay", "backoff"}

C28_WaitSelection ==
    [][WaitAsRecorded /\ WaitAfterFailedSend /\ OneWaitBetweenSends]_vars

(* C28 with success and failure read as the result startSendingProcess     *)
(* records for the attempt.                                                *)
C28_ByRecordedResult == [][WaitAsRecorded /\ OneWaitBetweenSends]_vars

(* C28 on part_001, which has no simulated send. *)
C28_Part001 ==
    [][server = "part_001"
        => WaitAsRecorded /\ WaitAfterFailedSend /\ OneWaitBetweenSends]_vars

(* C29: the log buffer of a loop server holds at most 100 entries, and     *)
(* they are the entries added last since the buffer was emptied, in the    *)
(* order they were added; /api/clear-logs leaves exactly one entry.        *)
MostRecent(entries) ==
    SubSeq(entries, IF Len(entries) > 100 THEN Len(entries) - 99 ELSE 1, Len(entries))

C29_LogBuffer ==
    /\ Len(logs) <= 100
    /\ logs = MostRecent(added)
    /\ last.op = "clear-logs" => Len(logs) = 1

(* The buffer is full and the two oldest entries have been dropped. *)
C29_Witness ==
    /\ Len(logs) = 100
    /\ Len(added) = 102
    /\ logs[1].n = added[3].n

====
